---------------------------- MODULE Spec2Model ----------------------------
(***************************************************************************)
(* Model of the IIoT scheduler results analyzer (src/analyze_results.py)   *)
(* and of the batch-task converter (src/init.py).                          *)
(*                                                                         *)
(* A results table is a record [cols, rows]: the set of column names its   *)
(* header holds and its records.  A record carries the two categorical     *)
(* keys and the cell of ONE metric column, the one named by the variable   *)
(* `column`; the other metric columns are taken to hold no missing cell.   *)
(* A cell is <<>> (missing, NaN after read_csv) or <<v>>.                  *)
(* Rendering calls (boxplot, heatmap, pairplot, plot) are modelled by what *)
(* the program depends on: they raise when a column they name is absent    *)
(* from the table, sns.heatmap raises on a pivot table without any row or  *)
(* column (numpy cannot take the minimum of an empty array), and otherwise *)
(* they draw on the current figure.  Tables have at least one record.      *)
(***************************************************************************)
EXTENDS Integers, Sequences, FiniteSets, TLC

VARIABLES
    results_dir,   \* self.results_dir seen as a listing: [exists, files]
    pending,       \* csv_files not yet visited by the loop of load_data
    attempted,     \* files on which read_csv was called (history)
    results,       \* self.results: stem -> table
    pc,            \* position of the process
    plots_dir,     \* TRUE once analysis_plots/ exists
    artifacts,     \* files written to analysis_plots/: [name, by]
    openFigs,      \* matplotlib's stack of open figures, current one last
    opened,        \* every figure ever opened (history)
    saved,         \* figures written by savefig (history)
    invoked,       \* reports that were called (history)
    raisedBy,      \* the report whose exception ended the run, or "none"
    out,           \* console messages of main / load_data / create_...
    column,        \* the metric column carried by the model's records
    pivot_table,   \* last pivot_table computed over `column`
    best,          \* leaderboard selection over `column` (best_cost, ...)
    todo,          \* reports a direct caller still has to invoke
    tables0,       \* the table mapping as it was when the reports started
    batch_task,    \* init.py: the input table read with header=None
    workflow       \* init.py: the lines written to workflow.txt

vars == <<results_dir, pending, attempted, results, pc, plots_dir, artifacts,
          openFigs, opened, saved, invoked, raisedBy, out, column,
          pivot_table, best, todo, tables0, batch_task, workflow>>

analyzerVars == <<results_dir, pending, attempted, results, plots_dir,
                  artifacts, openFigs, opened, saved, invoked, raisedBy, out,
                  column, pivot_table, best, todo, tables0>>

-----------------------------------------------------------------------------
(* Bounds *)

MaxRecords == 1
MaxRows == 3
MaxTasks == 2

-----------------------------------------------------------------------------
(* Tables *)

Columns == {"Algorithm", "Scenario", "TaskCount", "NodeCount", "TotalCost",
            "Makespan", "DeadlineHitRate", "ExecutionTime",
            "EnergyConsumption", "FogUtilization", "CloudUtilization"}

\* Group keys in ascending (string) order, the order groupby sorts them in.
SortedAlgorithms == <<"GA", "PSO">>

Algorithms == {SortedAlgorithms[i] : i \in DOMAIN SortedAlgorithms}

Scenarios == {"Baseline", "Scalability"}

Metrics == {"TotalCost", "Makespan", "DeadlineHitRate", "ExecutionTime"}

NaN == <<>>

Cells == {NaN, <<1>>, <<2>>}

Records == [Algorithm : Algorithms, Scenario : Scenarios, val : Cells]

SeqsUpTo(S, n) == UNION {[1..k -> S] : k \in 1..n}

\* Headers a results file may carry: complete, or with one column missing.
Headers == {Columns} \cup {Columns \ {c} : c \in Columns}

TablesOver(recs, n, headers) ==
    {[cols |-> h, rows |-> r] : h \in headers, r \in SeqsUpTo(recs, n)}

Tables(n, headers) == TablesOver(Records, n, headers)

\* What pd.read_csv makes of a file that is not a results table.
OtherTable == [cols |-> {"Name", "Value"}, rows |-> <<>>]

\* What a file holds: a table read_csv returns, or text on which it raises.
Parsed(t) == [ok |-> TRUE, table |-> t]

Unparsable == [ok |-> FALSE, table |-> OtherTable]


-----------------------------------------------------------------------------
(* Loader: IIoTSchedulerAnalyzer.__init__ / load_data *)

\* A file name is the sequence of its dot-separated components.
FileNames == { <<"comprehensive_results", "csv">>,
               <<"summary", "v2", "csv">>,
               <<"notes", "txt">> }

\* Path.stem: the name without its last suffix.
Stem(f) == SubSeq(f, 1, Len(f) - 1)

\* The key every report looks up.
ComprehensiveKey == <<"comprehensive_results">>

\* Variant: glob("*"), every file of the directory.
csv_files_any(d) == IF d.exists THEN DOMAIN d.files ELSE {}

\* self.results_dir.glob("*.csv"); a directory that does not exist yields
\* nothing.
csv_files(d) ==
    IF d.exists THEN {f \in DOMAIN d.files : f[Len(f)] = "csv"} ELSE {}

\* Variant: the entry is stored before the parse is known to succeed.
LoadOneEager(res, f, content) ==
    [k \in DOMAIN res \cup {Stem(f)} |->
        IF k = Stem(f) THEN content.table ELSE res[k]]

\* One iteration of the try/except body: the entry is stored only after
\* read_csv returned.
LoadOne(res, f, content) ==
    IF ~content.ok
    THEN res
    ELSE [k \in DOMAIN res \cup {Stem(f)} |->
             IF k = Stem(f) THEN content.table ELSE res[k]]

EmptyMapping == [k \in {} |-> OtherTable]

LoadDataBegin ==
    /\ pc = "main"
    /\ LET found == csv_files(results_dir) IN
         /\ pending' = found
         /\ out' = IF found = {} THEN out \o <<"loading", "no_csv_files">>
                                 ELSE out \o <<"loading">>
         /\ pc' = IF found = {} THEN "analysis" ELSE "load"
    /\ UNCHANGED <<results_dir, attempted, results, plots_dir, artifacts,
                   openFigs, opened, saved, invoked, raisedBy, column,
                   pivot_table, best, todo, tables0, batch_task, workflow>>

LoadFile ==
    /\ pc = "load"
    /\ \E f \in pending :
         LET content == results_dir.files[f] IN
           /\ attempted' = attempted \cup {f}
           /\ results' = LoadOne(results, f, content)
           /\ out' = Append(out, IF ~content.ok THEN "error_loading"
                                                 ELSE "loaded")
           /\ pending' = pending \ {f}
           /\ pc' = IF pending \ {f} = {} THEN "analysis" ELSE "load"
    /\ UNCHANGED <<results_dir, plots_dir, artifacts, openFigs, opened,
                   saved, invoked, raisedBy, column, pivot_table, best, todo,
                   tables0, batch_task, workflow>>

-----------------------------------------------------------------------------
(* Aggregations: the pandas calls the reports make on the table *)

RECURSIVE SumVals(_)
SumVals(rows) ==
    IF rows = <<>> THEN 0 ELSE Head(rows).val[1] + SumVals(Tail(rows))

\* Series.mean(): missing cells are skipped; a mean is kept exactly, as the
\* pair (sum, count); count 0 is NaN.
MeanOf(rows) ==
    LET present == SelectSeq(rows, LAMBDA r : r.val # NaN) IN
      [s |-> SumVals(present), n |-> Len(present)]

IsNaN(m) == m.n = 0

Le(a, b) == a.s * b.n <= b.s * a.n

\* The group keys in order of first appearance in the rows.
RECURSIVE FirstSeen(_, _)
FirstSeen(rows, seen) ==
    IF rows = <<>> THEN <<>>
    ELSE IF Head(rows).Algorithm \in seen
         THEN FirstSeen(Tail(rows), seen)
         ELSE <<Head(rows).Algorithm>>
              \o FirstSeen(Tail(rows), seen \cup {Head(rows).Algorithm})

\* Variant: groupby(..., sort=False), keys in order of first appearance.
GroupIndexUnsorted(rows) == FirstSeen(rows, {})

\* df.groupby('Algorithm'): sort=True, so the index of the result holds the
\* keys that occur, in ascending order.
GroupIndex(rows) ==
    SelectSeq(SortedAlgorithms,
              LAMBDA a : \E i \in DOMAIN rows : rows[i].Algorithm = a)

\* df.groupby('Algorithm')[column].mean(): a Series over GroupIndex.
GroupMeans(rows) ==
    LET idx == GroupIndex(rows) IN
      [i \in DOMAIN idx |->
         [key  |-> idx[i],
          mean |-> MeanOf(SelectSeq(rows, LAMBDA r : r.Algorithm = idx[i]))]]

\* Series.idxmin(): NaN is skipped, the label of the FIRST minimum in index
\* order is returned; NaN when every value is NaN (warnings are silenced).
idxmin(series) ==
    LET cand == {i \in DOMAIN series : ~IsNaN(series[i].mean)}
        mins == {i \in cand : \A j \in cand : Le(series[i].mean, series[j].mean)}
    IN IF cand = {} THEN "NaN"
       ELSE series[CHOOSE i \in mins : \A j \in mins : i <= j].key

idxmax(series) ==
    LET cand == {i \in DOMAIN series : ~IsNaN(series[i].mean)}
        maxs == {i \in cand : \A j \in cand : Le(series[j].mean, series[i].mean)}
    IN IF cand = {} THEN "NaN"
       ELSE series[CHOOSE i \in maxs : \A j \in maxs : i <= j].key

\* The leaderboard line of the metric in `col`: idxmax for DeadlineHitRate,
\* idxmin for the three others.
BestOf(rows, col) ==
    IF col = "DeadlineHitRate" THEN idxmax(GroupMeans(rows))
                               ELSE idxmin(GroupMeans(rows))

\* Variant: fill_value=0, every combination of the rectangle gets a value.
PivotTableFilled(rows) ==
    LET pairs == {<<rows[i].Algorithm, rows[i].Scenario>> : i \in DOMAIN rows}
        cell(p) == MeanOf(SelectSeq(rows, LAMBDA r : r.Algorithm = p[1]
                                                  /\ r.Scenario = p[2]))
        kept == {p \in pairs : ~IsNaN(cell(p))}
    IN [p \in {q[1] : q \in kept} \X {q[2] : q \in kept} |->
          IF p \in kept THEN cell(p) ELSE [s |-> 0, n |-> 1]]

\* df.pivot_table(values=column, index='Algorithm', columns='Scenario',
\* aggfunc='mean'): groups whose mean is NaN are dropped (dropna=True), the
\* rest is unstacked into a rectangle whose missing combinations are NaN.
PivotTable(rows) ==
    LET pairs == {<<rows[i].Algorithm, rows[i].Scenario>> : i \in DOMAIN rows}
        cell(p) == MeanOf(SelectSeq(rows, LAMBDA r : r.Algorithm = p[1]
                                                  /\ r.Scenario = p[2]))
        kept == {p \in pairs : ~IsNaN(cell(p))}
        index == {p[1] : p \in kept}
        cols == {p[2] : p \in kept}
    IN [p \in index \X cols |->
          IF p \in kept THEN cell(p) ELSE [s |-> 0, n |-> 0]]

EmptyPivot == [p \in {} |-> [s |-> 0, n |-> 0]]

-----------------------------------------------------------------------------
(* The statements of a report, as far as the state depends on them *)

\* A call that reads the named columns of df: KeyError/ValueError when one
\* of them is not in the table.
Need(c) == [op |-> "need", cols |-> c]

\* plt.subplots(...) / plt.figure(...) / sns.pairplot(...): a new figure,
\* which becomes the current one.
Open == [op |-> "open"]

\* plt.savefig(plots_dir / name): writes the current figure.
Save(name) == [op |-> "save", name |-> name]

\* plt.close(): closes the current figure.
Close == [op |-> "close"]

\* summary_stats.to_csv(plots_dir / name)
Write(name) == [op |-> "write", name |-> name]

\* df.pivot_table(values=metric, ...)
Pivot(metric) == [op |-> "pivot", values |-> metric]

\* sns.heatmap(pivot_table, ...)
Heatmap(metric) == [op |-> "heatmap", values |-> metric]

\* the four idxmin/idxmax selections of generate_statistical_summary
Leaderboard == [op |-> "leaderboard"]

\* A figure is named by the report that opened it and its rank among them.
NewFigure(r, st) ==
    [by |-> r, n |-> Cardinality({f \in st.opened : f.by = r}) + 1]

\* plt.gcf(): the current figure; pyplot makes one when none is open.
WithCurrent(r, st) ==
    IF st.figs # <<>> THEN st
    ELSE [st EXCEPT !.figs = <<NewFigure(r, st)>>,
                    !.opened = st.opened \cup {NewFigure(r, st)}]

Step(o, df, col, r, st) ==
    CASE o.op = "need" ->
           IF o.cols \subseteq df.cols THEN st ELSE [st EXCEPT !.raised = TRUE]
      [] o.op = "open" ->
           [st EXCEPT !.figs = Append(st.figs, NewFigure(r, st)),
                      !.opened = st.opened \cup {NewFigure(r, st)}]
      [] o.op = "save" ->
           LET c == WithCurrent(r, st) IN
             [c EXCEPT !.saved = c.saved \cup {c.figs[Len(c.figs)]},
                       !.arts = c.arts \cup {[name |-> o.name, by |-> r]}]
      [] o.op = "close" ->
           IF st.figs = <<>> THEN st
           ELSE [st EXCEPT !.figs = SubSeq(st.figs, 1, Len(st.figs) - 1)]
      [] o.op = "write" ->
           [st EXCEPT !.arts = st.arts \cup {[name |-> o.name, by |-> r]}]
      [] o.op = "pivot" ->
           IF o.values = col THEN [st EXCEPT !.pivot = PivotTable(df.rows)]
                             ELSE st
      [] o.op = "heatmap" ->
           IF o.values = col /\ DOMAIN st.pivot = {}
           THEN [st EXCEPT !.raised = TRUE]
           ELSE st
      [] o.op = "leaderboard" ->
           [st EXCEPT !.best = BestOf(df.rows, col)]

\* Statements run in order; an exception ends the report where it is.
RECURSIVE Exec(_, _, _, _, _)
Exec(ops, df, col, r, st) ==
    IF ops = <<>> \/ st.raised THEN st
    ELSE Exec(Tail(ops), df, col, r, Step(Head(ops), df, col, r, st))

\* for ... in metrics: a call reading `key` and the metric; when pivoting,
\* the call is pivot_table and a heatmap of its result follows.
RECURSIVE ForEach(_, _, _)
ForEach(metrics, key, pivoting) ==
    IF metrics = <<>> THEN <<>>
    ELSE <<Need(key \cup {Head(metrics)})>>
         \o (IF pivoting THEN <<Pivot(Head(metrics)), Heatmap(Head(metrics))>>
                         ELSE <<>>)
         \o ForEach(Tail(metrics), key, pivoting)

HasComprehensive(res) == ComprehensiveKey \in DOMAIN res

ScalabilityRows(df) == SelectSeq(df.rows, LAMBDA r : r.Scenario = "Scalability")

\* df[key_metrics].dropna()
ScatterRows(df) == SelectSeq(df.rows, LAMBDA r : r.val # NaN)

-----------------------------------------------------------------------------
(* The six reports *)

plot_algorithm_comparison(res) ==
    IF ~HasComprehensive(res) THEN <<>>
    ELSE <<Open>>
         \o ForEach(<<"TotalCost", "Makespan", "DeadlineHitRate",
                      "ExecutionTime", "EnergyConsumption", "FogUtilization">>,
                    {"Algorithm"}, FALSE)
         \o <<Save("algorithm_comparison.png"), Close,
              Open,
              Need({"Algorithm", "TotalCost", "Makespan", "DeadlineHitRate"}),
              Save("average_performance.png"), Close>>

plot_scenario_analysis(res) ==
    IF ~HasComprehensive(res) THEN <<>>
    ELSE <<Open,
           Need({"Scenario", "TotalCost"}),
           Need({"Scenario", "Makespan"}),
           Need({"Scenario", "DeadlineHitRate"}),
           Need({"TotalCost", "Algorithm", "Scenario"}), Pivot("TotalCost"),
           Heatmap("TotalCost"),
           Save("scenario_analysis.png"), Close>>

plot_scalability_analysis(res) ==
    IF ~HasComprehensive(res) THEN <<>>
    ELSE <<Need({"Scenario"})>>
         \o (IF Len(ScalabilityRows(res[ComprehensiveKey])) = 0 THEN <<>>
             ELSE <<Open,
                    Need({"Algorithm"}), Need({"TaskCount", "TotalCost"}),
                    Need({"Algorithm"}), Need({"NodeCount", "TotalCost"}),
                    Need({"Algorithm"}), Need({"TaskCount", "ExecutionTime"}),
                    Need({"Algorithm"}),
                    Need({"TaskCount", "NodeCount", "TotalCost"}),
                    Save("scalability_analysis.png"), Close>>)

\* Variant: the pair plot is saved but never closed.
plot_correlation_analysis_leak(res) ==
    IF ~HasComprehensive(res) THEN <<>>
    ELSE <<Need({"TaskCount", "NodeCount", "TotalCost", "Makespan",
                 "DeadlineHitRate", "ExecutionTime", "EnergyConsumption",
                 "FogUtilization", "CloudUtilization"}),
           Open, Save("correlation_matrix.png"), Close,
           Need({"TotalCost", "Makespan", "DeadlineHitRate", "ExecutionTime"})>>
         \o (IF Len(ScatterRows(res[ComprehensiveKey])) > 0
             THEN <<Open, Save("scatter_matrix.png")>>
             ELSE <<>>)

plot_correlation_analysis(res) ==
    IF ~HasComprehensive(res) THEN <<>>
    ELSE <<Need({"TaskCount", "NodeCount", "TotalCost", "Makespan",
                 "DeadlineHitRate", "ExecutionTime", "EnergyConsumption",
                 "FogUtilization", "CloudUtilization"}),
           Open, Save("correlation_matrix.png"), Close,
           Need({"TotalCost", "Makespan", "DeadlineHitRate", "ExecutionTime"})>>
         \o (IF Len(ScatterRows(res[ComprehensiveKey])) > 0
             THEN <<Open, Save("scatter_matrix.png"), Close>>
             ELSE <<>>)

\* Variant: the heatmaps are saved under the scenario report's file name.
plot_performance_heatmaps_clash(res) ==
    IF ~HasComprehensive(res) THEN <<>>
    ELSE <<Open>>
         \o ForEach(<<"TotalCost", "Makespan", "DeadlineHitRate",
                      "ExecutionTime">>, {"Algorithm", "Scenario"}, TRUE)
         \o <<Save("scenario_analysis.png"), Close>>

plot_performance_heatmaps(res) ==
    IF ~HasComprehensive(res) THEN <<>>
    ELSE <<Open>>
         \o ForEach(<<"TotalCost", "Makespan", "DeadlineHitRate",
                      "ExecutionTime">>, {"Algorithm", "Scenario"}, TRUE)
         \o <<Save("performance_heatmaps.png"), Close>>

generate_statistical_summary(res) ==
    IF ~HasComprehensive(res) THEN <<>>
    ELSE <<Need({"Algorithm", "TotalCost", "Makespan", "DeadlineHitRate",
                 "ExecutionTime"}),
           Write("statistical_summary.csv"),
           Open>>
         \o ForEach(<<"TotalCost", "Makespan", "DeadlineHitRate",
                      "ExecutionTime">>, {"Algorithm"}, FALSE)
         \o <<Save("statistical_summary.png"), Close,
              Need({"Algorithm", "TotalCost"}), Need({"Algorithm", "Makespan"}),
              Need({"Algorithm", "DeadlineHitRate"}),
              Need({"Algorithm", "ExecutionTime"}),
              Leaderboard>>

\* The order in which create_comprehensive_analysis calls the reports.
ReportOrder == <<"plot_algorithm_comparison", "plot_scenario_analysis",
                 "plot_scalability_analysis", "plot_correlation_analysis",
                 "plot_performance_heatmaps", "generate_statistical_summary">>

Reports == {ReportOrder[i] : i \in DOMAIN ReportOrder}

Statements(r, res) ==
    CASE r = "plot_algorithm_comparison"    -> plot_algorithm_comparison(res)
      [] r = "plot_scenario_analysis"       -> plot_scenario_analysis(res)
      [] r = "plot_scalability_analysis"    -> plot_scalability_analysis(res)
      [] r = "plot_correlation_analysis"    -> plot_correlation_analysis(res)
      [] r = "plot_performance_heatmaps"    -> plot_performance_heatmaps(res)
      [] r = "generate_statistical_summary" -> generate_statistical_summary(res)

\* A call of report r; control goes to `after` when it returns, and the
\* exception, if any, propagates out of main.
Call(r, after) ==
    LET df  == IF HasComprehensive(results) THEN results[ComprehensiveKey]
                                            ELSE OtherTable
        st0 == [figs |-> openFigs, opened |-> opened, saved |-> saved,
                arts |-> artifacts, raised |-> FALSE,
                pivot |-> pivot_table, best |-> best]
        st  == Exec(Statements(r, results), df, column, r, st0)
    IN /\ invoked' = invoked \cup {r}
       /\ openFigs' = st.figs
       /\ opened' = st.opened
       /\ saved' = st.saved
       /\ artifacts' = st.arts
       /\ pivot_table' = st.pivot
       /\ best' = st.best
       /\ raisedBy' = IF st.raised THEN r ELSE raisedBy
       /\ pc' = IF st.raised THEN "raised" ELSE after
       /\ UNCHANGED <<results_dir, pending, attempted, results, plots_dir,
                      out, column, todo, tables0, batch_task, workflow>>

-----------------------------------------------------------------------------
(* create_comprehensive_analysis and main *)

CreateAnalysis ==
    /\ pc = "analysis"
    /\ IF DOMAIN results = {}
       THEN /\ out' = Append(out, "no_data")
            /\ pc' = "finish"
            /\ UNCHANGED <<plots_dir, tables0>>
       ELSE /\ out' = Append(out, "creating")
            /\ plots_dir' = TRUE
            /\ tables0' = results
            /\ pc' = ReportOrder[1]
    /\ UNCHANGED <<results_dir, pending, attempted, results, artifacts,
                   openFigs, opened, saved, invoked, raisedBy, column,
                   pivot_table, best, todo, batch_task, workflow>>

PlotAlgorithmComparison ==
    pc = ReportOrder[1] /\ Call(ReportOrder[1], ReportOrder[2])

PlotScenarioAnalysis ==
    pc = ReportOrder[2] /\ Call(ReportOrder[2], ReportOrder[3])

PlotScalabilityAnalysis ==
    pc = ReportOrder[3] /\ Call(ReportOrder[3], ReportOrder[4])

PlotCorrelationAnalysis ==
    pc = ReportOrder[4] /\ Call(ReportOrder[4], ReportOrder[5])

PlotPerformanceHeatmaps ==
    pc = ReportOrder[5] /\ Call(ReportOrder[5], ReportOrder[6])

GenerateStatisticalSummary ==
    pc = ReportOrder[6] /\ Call(ReportOrder[6], "epilogue")

AnalysisCompleted ==
    /\ pc = "epilogue"
    /\ out' = Append(out, "analysis_completed")
    /\ pc' = "finish"
    /\ UNCHANGED <<results_dir, pending, attempted, results, plots_dir,
                   artifacts, openFigs, opened, saved, invoked, raisedBy,
                   column, pivot_table, best, todo, tables0, batch_task,
                   workflow>>

MainFinish ==
    /\ pc = "finish"
    /\ out' = Append(out, "completed_successfully")
    /\ pc' = "done"
    /\ UNCHANGED <<results_dir, pending, attempted, results, plots_dir,
                   artifacts, openFigs, opened, saved, invoked, raisedBy,
                   column, pivot_table, best, todo, tables0, batch_task,
                   workflow>>

\* What the results directory may hold.
Contents(f) ==
    IF f = <<"comprehensive_results", "csv">>
    THEN {Unparsable} \cup {Parsed(t) : t \in Tables(MaxRecords, Headers)}
    ELSE {Unparsable, Parsed(OtherTable)}

\* A file that is not in the directory.
Absent == [ok |-> FALSE, table |-> [cols |-> {}, rows |-> <<>>]]

Listing(choice) ==
    [f \in {g \in FileNames : choice[g] # Absent} |-> choice[f]]

Listings ==
    {Listing([f \in FileNames |->
                 CASE f = <<"comprehensive_results", "csv">> -> c
                   [] f = <<"summary", "v2", "csv">> -> s
                   [] OTHER -> n]) :
        c \in {Absent} \cup Contents(<<"comprehensive_results", "csv">>),
        s \in {Absent} \cup Contents(<<"summary", "v2", "csv">>),
        n \in {Absent} \cup Contents(<<"notes", "txt">>)}

ConverterIdle ==
    /\ batch_task = [rest |-> "int64", rows |-> <<>>]
    /\ workflow = <<>>

Init ==
    /\ results_dir \in {[exists |-> FALSE, files |-> EmptyMapping]}
                       \cup {[exists |-> TRUE, files |-> l] : l \in Listings}
    /\ pending = {}
    /\ attempted = {}
    /\ results = EmptyMapping
    /\ pc = "main"
    /\ plots_dir = FALSE
    /\ artifacts = {}
    /\ openFigs = <<>>
    /\ opened = {}
    /\ saved = {}
    /\ invoked = {}
    /\ raisedBy = "none"
    /\ out = <<>>
    /\ column = "TotalCost"
    /\ pivot_table = EmptyPivot
    /\ best = "unset"
    /\ todo = {}
    /\ tables0 = EmptyMapping
    /\ ConverterIdle

Next ==
    \/ LoadDataBegin
    \/ LoadFile
    \/ CreateAnalysis
    \/ PlotAlgorithmComparison
    \/ PlotScenarioAnalysis
    \/ PlotScalabilityAnalysis
    \/ PlotCorrelationAnalysis
    \/ PlotPerformanceHeatmaps
    \/ GenerateStatisticalSummary
    \/ AnalysisCompleted
    \/ MainFinish

Spec == Init /\ [][Next]_vars

-----------------------------------------------------------------------------
(* The reports called directly on a constructed analyzer, in any order *)

\* The table mappings load_data can leave behind.
Mappings(tables) ==
    {EmptyMapping, [k \in {Stem(<<"summary", "v2", "csv">>)} |-> OtherTable]}
    \cup {[k \in {ComprehensiveKey} |-> t] : t \in tables}

Constructed(mappings, reports, columns) ==
    /\ results_dir = [exists |-> TRUE, files |-> EmptyMapping]
    /\ pending = {}
    /\ attempted = {}
    /\ results \in mappings
    /\ tables0 = results
    /\ pc = "harness"
    /\ plots_dir = TRUE
    /\ artifacts = {}
    /\ openFigs = <<>>
    /\ opened = {}
    /\ saved = {}
    /\ invoked = {}
    /\ raisedBy = "none"
    /\ out = <<>>
    /\ column \in columns
    /\ pivot_table = EmptyPivot
    /\ best = "unset"
    /\ todo = reports
    /\ ConverterIdle

Invoke ==
    /\ pc = "harness"
    /\ \E r \in todo \ invoked : Call(r, "harness")

NextInvoke == Invoke

\* Every order of the six reports, on every mapping the loader can produce.
InitPerm == Constructed(Mappings(Tables(MaxRecords, Headers)), Reports,
                        {"TotalCost"})

SpecPerm == InitPerm /\ [][NextInvoke]_vars

\* The two reports that pivot, on complete tables of up to MaxRows records.
PivotReports == {"plot_scenario_analysis", "plot_performance_heatmaps"}

InitPivot ==
    Constructed({[k \in {ComprehensiveKey} |-> t] :
                    t \in Tables(MaxRows, {Columns})},
                PivotReports, {"TotalCost"})

SpecPivot == InitPivot /\ [][NextInvoke]_vars

\* The statistical summary, for each of the four leaderboard metrics, on
\* complete tables of up to MaxRows records of one scenario.
InitBest ==
    Constructed({[k \in {ComprehensiveKey} |-> t] :
                    t \in TablesOver({r \in Records : r.Scenario = "Baseline"},
                                     MaxRows, {Columns})},
                {"generate_statistical_summary"}, Metrics)

SpecBest == InitBest /\ [][NextInvoke]_vars

-----------------------------------------------------------------------------
(* The converter, src/init.py *)

\* A numeric cell or value: whether it is a float, and its value in tenths.
Num(f, v) == [float |-> f, v10 |-> v]

Whole(n) == Num(FALSE, 10 * n)

ConvColumns == {"c5", "c6", "c8"}

TaskRows ==
    [c5 : {Whole(100)},
     c6 : {Whole(220), Num(TRUE, 2205)},
     c8 : {Whole(5), Num(TRUE, 5), Num(TRUE, 15)}]

\* dtypes the columns other than 5, 6 and 8 can have between them
RestDtypes == {"int64", "float64", "object"}

\* read_csv: a column is float64 as soon as one of its cells is written
\* with a decimal point.
ColFloat(t, k) == \E i \in DOMAIN t.rows : t.rows[i][k].float

\* iterrows(): each row is a Series of ONE dtype, the common type of the
\* columns.
RowDtype(t) ==
    IF t.rest = "object" THEN "object"
    ELSE IF t.rest = "float64" \/ \E k \in ConvColumns : ColFloat(t, k)
         THEN "float64"
         ELSE "int64"

\* row[k] for the row at position i (1-based here)
Element(t, i, k) ==
    Num(RowDtype(t) = "float64" \/ ColFloat(t, k), t.rows[i][k].v10)

\* int(x): truncation toward zero
IntOf(x) == IF x.v10 >= 0 THEN x.v10 \div 10 ELSE -((-x.v10) \div 10)

Sub(a, b) == Num(a.float \/ b.float, a.v10 - b.v10)

\* What an f-string prints for a number: an int as its digits, a float
\* with a decimal point.
Format(x) ==
    LET a == IF x.v10 >= 0 THEN x.v10 ELSE -x.v10 IN
      [neg  |-> x.v10 < 0,
       int  |-> a \div 10,
       frac |-> IF x.float THEN <<a % 10>> ELSE <<>>]

Length(t, i) == IntOf(Element(t, i, "c8")) * 1000

Deadline(t, i) == Sub(Element(t, i, "c6"), Element(t, i, "c5"))

\* The line written for the row at position i: its index label is i - 1.
TaskLine(t, i) ==
    <<"TASK", Format(Whole(i - 1)), Format(Whole(Length(t, i))), Format(Whole(10)),
      Format(Whole(10)), Format(Whole(1)), Format(Num(TRUE, 1)),
      Format(Deadline(t, i))>>

AnalyzerIdle ==
    /\ results_dir = [exists |-> FALSE, files |-> EmptyMapping]
    /\ pending = {}
    /\ attempted = {}
    /\ results = EmptyMapping
    /\ tables0 = EmptyMapping
    /\ plots_dir = FALSE
    /\ artifacts = {}
    /\ openFigs = <<>>
    /\ opened = {}
    /\ saved = {}
    /\ invoked = {}
    /\ raisedBy = "none"
    /\ out = <<>>
    /\ column = "TotalCost"
    /\ pivot_table = EmptyPivot
    /\ best = "unset"
    /\ todo = {}

InitConv ==
    /\ AnalyzerIdle
    /\ pc = "convert"
    /\ batch_task \in
         {[rest |-> d, rows |-> r] :
            d \in RestDtypes, r \in {<<>>} \cup SeqsUpTo(TaskRows, MaxTasks)}
    /\ workflow = <<>>

WriteTask ==
    /\ pc = "convert"
    /\ Len(workflow) < Len(batch_task.rows)
    /\ workflow' = Append(workflow, TaskLine(batch_task, Len(workflow) + 1))
    /\ UNCHANGED <<pc, batch_task>>
    /\ UNCHANGED analyzerVars

CloseWorkflow ==
    /\ pc = "convert"
    /\ Len(workflow) = Len(batch_task.rows)
    /\ pc' = "converted"
    /\ UNCHANGED <<workflow, batch_task>>
    /\ UNCHANGED analyzerVars

NextConv == WriteTask \/ CloseWorkflow

SpecConv == InitConv /\ [][NextConv]_vars

-----------------------------------------------------------------------------
(* Properties *)

\* The primary table, when it was loaded.
Df == IF HasComprehensive(results) THEN results[ComprehensiveKey]
                                   ELSE OtherTable

IsCsv(f) == f[Len(f)] = "csv"

\* The CSV files the results directory holds.
CsvInDir ==
    IF results_dir.exists THEN {f \in DOMAIN results_dir.files : IsCsv(f)}
                          ELSE {}

Loaded == pc \notin {"main", "load"}

Ended == pc \in {"done", "raised"}

\* The columns report r reads on the loaded tables.
ColumnsRead(r) ==
    LET ops == Statements(r, results) IN
      UNION {ops[i].cols : i \in {j \in DOMAIN ops : ops[j].op = "need"}}

ArtifactNames == {a.name : a \in artifacts}

\* C1: when comprehensive_results is absent, or present without a column a
\* report needs, that report raises nothing and writes no artifact, the
\* other reports still run, and the run reaches its end successfully.
C1_MissingInputSkipsReport ==
    (Loaded /\ (~HasComprehensive(results) \/ Df.cols # Columns)) =>
        /\ pc # "raised"
        /\ \A r \in invoked :
              (~HasComprehensive(results) \/ ~(ColumnsRead(r) \subseteq Df.cols))
                  => \A a \in artifacts : a.by # r
        /\ (pc \in {"epilogue", "finish", "done"} /\ DOMAIN results # {})
              => invoked = Reports

\* C2: with no CSV file in the results directory (or no directory) the
\* table mapping stays empty and the run goes on, without raising, to the
\* final message of main.
C2_EmptyDirectoryCompletes ==
    (CsvInDir = {}) =>
        /\ DOMAIN results = {}
        /\ pc # "raised"
        /\ invoked = {}
        /\ (pc = "done" => out = <<"loading", "no_csv_files", "no_data",
                                   "completed_successfully">>)
        /\ (pc # "done" => ENABLED Next)

C2_Witness ==
    /\ pc = "done"
    /\ CsvInDir = {}
    /\ results_dir.exists
    /\ DOMAIN results_dir.files # {}

\* C3: load_data calls read_csv on every CSV file of the directory, whatever
\* fails, and the keys of the mapping are exactly the stems of the files
\* that parsed, each bound to the table of its file.
C3_KeysAreParsedStems ==
    /\ attempted \subseteq CsvInDir
    /\ DOMAIN results =
          {Stem(f) : f \in {g \in attempted : results_dir.files[g].ok}}
    /\ \A f \in attempted :
          results_dir.files[f].ok
              => results[Stem(f)] = results_dir.files[f].table
    /\ (pc = "load" => pending = CsvInDir \ attempted /\ pending # {})
    /\ (Loaded => attempted = CsvInDir)

C3_Witness ==
    /\ Loaded
    /\ \E f, g \in attempted :
          ~results_dir.files[f].ok /\ results_dir.files[g].ok

\* C4: when comprehensive_results has no record of the Scalability
\* scenario, the scalability report returns without error, writes no
\* scalability_analysis artifact, opens no figure, and the correlation,
\* heatmap and summary reports still run.
C4_NoScalabilityRowsSkips ==
    (/\ HasComprehensive(results)
     /\ Len(ScalabilityRows(Df)) = 0
     /\ "plot_scalability_analysis" \in invoked) =>
        /\ raisedBy # "plot_scalability_analysis"
        /\ "scalability_analysis.png" \notin ArtifactNames
        /\ \A f \in opened : f.by # "plot_scalability_analysis"
        /\ Ended => {"plot_correlation_analysis", "plot_performance_heatmaps",
                     "generate_statistical_summary"} \subseteq invoked

C10_DirectoryIffTables ==
    Ended =>
        /\ plots_dir <=> (DOMAIN results # {})
        /\ (invoked = Reports) <=> (DOMAIN results # {})
        /\ (DOMAIN results = {}) => (invoked = {} /\ artifacts = {})
        /\ (DOMAIN results # {} /\ ~HasComprehensive(results))
              => (plots_dir /\ artifacts = {})

-----------------------------------------------------------------------------
(* Order of the reports (SpecPerm) *)

\* What report r writes when it is the only report called.
Alone(r) ==
    Exec(Statements(r, tables0), 
         IF HasComprehensive(tables0) THEN tables0[ComprehensiveKey]
                                      ELSE OtherTable,
         column, r,
         [figs |-> <<>>, opened |-> {}, saved |-> {}, arts |-> {},
          raised |-> FALSE, pivot |-> EmptyPivot, best |-> "unset"]).arts

\* The files a complete run leaves, read off the table.
ExpectedNames(res) ==
    IF ~HasComprehensive(res) THEN {}
    ELSE {"algorithm_comparison.png", "average_performance.png",
          "scenario_analysis.png", "correlation_matrix.png",
          "performance_heatmaps.png", "statistical_summary.csv",
          "statistical_summary.png"}
         \cup (IF \E i \in DOMAIN res[ComprehensiveKey].rows :
                     res[ComprehensiveKey].rows[i].Scenario = "Scalability"
               THEN {"scalability_analysis.png"} ELSE {})
         \cup (IF \E i \in DOMAIN res[ComprehensiveKey].rows :
                     res[ComprehensiveKey].rows[i].val # NaN
               THEN {"scatter_matrix.png"} ELSE {})

\* C9: the reports leave the table mapping as it was loaded; what each
\* writes does not depend on the reports called before it; no file name is
\* written by two reports; so every order of the six reports that runs to
\* its end leaves the same set of artifacts.
C9_OrderIndependent ==
    /\ results = tables0
    /\ artifacts = UNION {Alone(r) : r \in invoked}
    /\ \A a, b \in artifacts : a.name = b.name => a.by = b.by
    /\ (pc = "harness" /\ invoked = Reports)
          => ArtifactNames = ExpectedNames(tables0)

C9_Witness ==
    /\ pc = "harness"
    /\ invoked = Reports
    /\ Cardinality(ArtifactNames) = 9

-----------------------------------------------------------------------------
(* Leaderboard (SpecBest) *)

Present == {Df.rows[i].Algorithm : i \in DOMAIN Df.rows}

AlgMean(a) == MeanOf(SelectSeq(Df.rows, LAMBDA r : r.Algorithm = a))

\* Algorithms with at least one cell of the metric: the candidates.
Candidates == {a \in Present : ~IsNaN(AlgMean(a))}

AtLeastAsGood(a, b) ==
    IF column = "DeadlineHitRate" THEN Le(AlgMean(b), AlgMean(a))
                                  ELSE Le(AlgMean(a), AlgMean(b))

Optimal == {a \in Candidates : \A b \in Candidates : AtLeastAsGood(a, b)}

FirstRow(a) ==
    CHOOSE i \in DOMAIN Df.rows :
        /\ Df.rows[i].Algorithm = a
        /\ \A j \in DOMAIN Df.rows : Df.rows[j].Algorithm = a => i <= j

Rank(a) == CHOOSE i \in DOMAIN SortedAlgorithms : SortedAlgorithms[i] = a

SummaryDone == "generate_statistical_summary" \in invoked /\ pc # "raised"

\* C5 as stated: the selection has the best group mean, and among the
\* Algorithms that tie on it the one whose first record comes earliest in
\* the table is chosen.
C5_TieByRowOrder ==
    (SummaryDone /\ Candidates # {}) =>
        /\ best \in Optimal
        /\ \A b \in Optimal : FirstRow(best) <= FirstRow(b)

\* C5 as amended: the selection has the best group mean, and among the
\* Algorithms that tie on it the one whose name sorts first is chosen;
\* NaN is selected when no Algorithm has a cell of the metric.
C5_TieBySortedKey ==
    SummaryDone =>
        IF Candidates = {} THEN best = "NaN"
        ELSE /\ best \in Optimal
             /\ \A b \in Optimal : Rank(best) <= Rank(b)

C5_Witness ==
    /\ SummaryDone
    /\ Cardinality(Optimal) = 2
    /\ \E b \in Optimal : FirstRow(b) < FirstRow(best)

-----------------------------------------------------------------------------
(* Pivot (SpecPivot) *)

\* The defined cells of a pivot table.
Flatten(pt) == {p \in DOMAIN pt : ~IsNaN(pt[p])}

PairsInTable ==
    {<<Df.rows[i].Algorithm, Df.rows[i].Scenario>> : i \in DOMAIN Df.rows}

PairsWithValue ==
    {<<Df.rows[i].Algorithm, Df.rows[i].Scenario>> :
        i \in {j \in DOMAIN Df.rows : Df.rows[j].val # NaN}}

\* Both reports compute the pivot before anything can fail on a complete
\* table.
PivotDone == invoked # {}

\* C6 as stated: the defined cells of the pivot are exactly the
\* (Algorithm, Scenario) pairs that occur in some record of the table.
C6_PivotPairsOfTable ==
    PivotDone => Flatten(pivot_table) = PairsInTable

\* C6 as amended: the defined cells of the pivot are exactly the pairs that
\* occur in some record holding a value of the metric, each with the mean
\* of those values; every other cell of the rectangle is NaN, not zero.
C6_PivotPairsWithValue ==
    PivotDone =>
        /\ Flatten(pivot_table) = PairsWithValue
        /\ \A p \in PairsWithValue :
              pivot_table[p] =
                  MeanOf(SelectSeq(Df.rows, LAMBDA r : r.Algorithm = p[1]
                                                    /\ r.Scenario = p[2]))
        /\ \A p \in DOMAIN pivot_table \ PairsWithValue :
              pivot_table[p] = [s |-> 0, n |-> 0]

C6_Witness ==
    /\ PivotDone
    /\ pc # "raised"
    /\ PairsWithValue # PairsInTable
    /\ DOMAIN pivot_table # Flatten(pivot_table)

-----------------------------------------------------------------------------
(* Converter (SpecConv) *)

\* The number a printed field denotes, in tenths.
ValueOf(x) ==
    LET v == 10 * x.int + (IF x.frac = <<>> THEN 0 ELSE x.frac[1]) IN
      IF x.neg THEN -v ELSE v

\* C7: N rows give N lines in row order; line i is
\* 'TASK, i, L, 10, 10, 1, 0.1, D' with L = column 8 * 1000 and
\* D = column 6 - column 5; the row [.., 100, 220, _, 5] at index 0 gives
\* 'TASK, 0, 5000, 10, 10, 1, 0.1, 120'.
C7_LinePerRow ==
    /\ Len(workflow) <= Len(batch_task.rows)
    /\ (pc = "converted" => Len(workflow) = Len(batch_task.rows))
    /\ \A i \in DOMAIN workflow :
          LET row == batch_task.rows[i]
              line == workflow[i]
          IN /\ Len(line) = 8
             /\ line[1] = "TASK"
             /\ line[2] = Format(Whole(i - 1))
             /\ ValueOf(line[3]) = row.c8.v10 * 1000
             /\ line[4] = Format(Whole(10))
             /\ line[5] = Format(Whole(10))
             /\ line[6] = Format(Whole(1))
             /\ line[7] = Format(Num(TRUE, 1))
             /\ ValueOf(line[8]) = row.c6.v10 - row.c5.v10
             /\ (i = 1 /\ row.c5.v10 = 1000 /\ row.c6.v10 = 2200
                       /\ row.c8.v10 = 50)
                   => (ValueOf(line[3]) = 50000 /\ ValueOf(line[8]) = 1200)

=============================================================================
